---- MODULE Spec2Model ----
(***************************************************************************)
(* fastapi-users-db-beanie: the user store (BeanieUserDatabase) and the    *)
(* access-token store (BeanieAccessTokenDatabase) over two document        *)
(* collections.  A stored collection is a set of documents; the caller     *)
(* holds in-memory document objects (umem, tmem), which the update         *)
(* operations mutate in place and then save whole.                         *)
(***************************************************************************)
EXTENDS Integers, Sequences, FiniteSets, TLC

VARIABLES
    oauth_account_model,  \* self.oauth_account_model: None or the OAuth type
    users,                \* the stored user collection
    tokens,               \* the stored access-token collection
    next_id,              \* the next ObjectId given to a document
    next_sub_id,          \* the next ObjectId given to an OAuth sub-record
    umem,                 \* the caller's in-memory user objects, by variable
    tmem,                 \* the caller's in-memory access-token objects
    last                  \* the last call: operation, arguments, outcome, result

vars == <<oauth_account_model, users, tokens, next_id, next_sub_id, umem, tmem, last>>

\* Python's None.
None == [none |-> TRUE]

\* The caller's variables that hold a document object.
Handles == {"h1", "h2"}

\* Documents get the ObjectIds 1..MaxId, OAuth sub-records 1..MaxSubId.
MaxId == 2
MaxSubId == 2

\* Timestamps, in the store's resolution.
MaxTime == 1
Datetime(t) == [time |-> t]
Times == {Datetime(t) : t \in 0 .. MaxTime}

-----------------------------------------------------------------------------
(* Strings are sequences of characters.  A character carries the three     *)
(* collation weights of the "en" locale: its base letter (primary), its    *)
(* diacritic (secondary) and its case (tertiary).                          *)

Primary(c) ==
    CASE c \in {"l", "L", "l_acute"} -> "l"
      [] c \in {"ka_cyr", "KA_cyr"} -> "ka_cyr"
      [] OTHER -> c

Secondary(c) == IF c = "l_acute" THEN "acute" ELSE "plain"

Tertiary(c) == IF c \in {"L", "KA_cyr"} THEN "upper" ELSE "lower"

\* A collation that compares base letters alone.
primary_collation == [locale |-> "en", strength |-> 1]

\* Settings.email_collation = Collation("en", strength=2)
email_collation == [locale |-> "en", strength |-> 2]

\* The sort key a collation compares strings by: strength 1 keeps the base
\* letters, strength 2 adds the diacritics, strength 3 adds the case.
CollationKey(s, collation) ==
    [i \in 1 .. Len(s) |->
        IF collation.strength = 1 THEN <<Primary(s[i])>>
        ELSE IF collation.strength = 2 THEN <<Primary(s[i]), Secondary(s[i])>>
        ELSE <<Primary(s[i]), Secondary(s[i]), Tertiary(s[i])>>]

CollationEq(s, t, collation) == CollationKey(s, collation) = CollationKey(t, collation)

\* IndexModel("email", unique=True): no collation, so keys are compared as
\* they are stored.  The second index (case_insensitive_email_index) is not
\* unique and rejects nothing.
EmailIndexAdmits(coll, doc) ==
    \A d \in coll : d.id # doc.id => d.email # doc.email

-----------------------------------------------------------------------------
(* Documents.                                                              *)

\* BeanieBaseUser's declared defaults (and the OAuth list of UserOAuth).
UserDefaults ==
    [is_active |-> TRUE, is_superuser |-> FALSE, is_verified |-> FALSE,
     oauth_accounts |-> <<>>]

\* self.user_model(**create_dict)
UserModel(create_dict) == create_dict @@ UserDefaults

\* BaseOAuthAccount(**create_dict), with the id of its default factory.
OAuthAccountModel(create_dict, id) ==
    create_dict @@ [id |-> id, expires_at |-> None, refresh_token |-> None]

\* for key, value in update_dict.items(): setattr(obj, key, value)
SetAttrs(obj, update_dict) ==
    [k \in DOMAIN obj |-> IF k \in DOMAIN update_dict THEN update_dict[k] ELSE obj[k]]

\* Document.get(id)
FindById(coll, id) ==
    IF \E d \in coll : d.id = id THEN CHOOSE d \in coll : d.id = id ELSE None

\* A save that inserts and never replaces: the first write of a document stays.
InsertedOnly(coll, doc) ==
    IF \E d \in coll : d.id = doc.id THEN coll ELSE coll \cup {doc}

\* Document.save(): replace the stored document of the same id, or insert
\* the document when none is stored.
Saved(coll, doc) == {d \in coll : d.id # doc.id} \cup {doc}

\* A delete that filters on the whole in-memory document.
DeletedIfSame(coll, doc) == coll \ {doc}

\* Document.delete()
Deleted(coll, doc) == {d \in coll : d.id # doc.id}

\* The stored users a find_one by email may return.
EmailMatches(coll, email) ==
    {d \in coll : CollationEq(d.email, email, email_collation)}

\* The stored users a find_one by OAuth account may return: the filter holds
\* two dotted paths into the embedded list, each satisfied by any element.
OAuthMatches(coll, oauth, account_id) ==
    {d \in coll :
        /\ \E i \in 1 .. Len(d.oauth_accounts) : d.oauth_accounts[i].oauth_name = oauth
        /\ \E j \in 1 .. Len(d.oauth_accounts) : d.oauth_accounts[j].account_id = account_id}

\* find_one: a matching document, or None.
FindOneResults(matches) == IF matches = {} THEN {None} ELSE matches

-----------------------------------------------------------------------------
(* The user store.                                                         *)

\* The record of a call: the operation, the caller's variable it was given or
\* assigns, its other arguments, and "ok" or the exception it raised.
Call(op, h, arg, outcome) == [op |-> op, h |-> h, arg |-> arg, outcome |-> outcome]

\* BeanieUserDatabase.get
Get(h, id) ==
    LET user == FindById(users, id) IN
    /\ umem' = [umem EXCEPT ![h] = user]
    /\ last' = Call("get", h, id, "ok")
    /\ UNCHANGED <<oauth_account_model, users, tokens, next_id, next_sub_id, tmem>>

\* BeanieUserDatabase.get_by_email
GetByEmail(h, email) ==
    \E user \in FindOneResults(EmailMatches(users, email)) :
        /\ umem' = [umem EXCEPT ![h] = user]
        /\ last' = Call("get_by_email", h, email, "ok")
        /\ UNCHANGED <<oauth_account_model, users, tokens, next_id, next_sub_id, tmem>>

\* BeanieUserDatabase.get_by_oauth_account
GetByOAuthAccount(h, oauth, account_id) ==
    /\ IF oauth_account_model = None
       THEN /\ last' = Call("get_by_oauth_account", h, <<oauth, account_id>>,
                            "NotImplementedError")
            /\ umem' = umem
       ELSE \E user \in FindOneResults(OAuthMatches(users, oauth, account_id)) :
            /\ umem' = [umem EXCEPT ![h] = user]
            /\ last' = Call("get_by_oauth_account", h, <<oauth, account_id>>, "ok")
    /\ UNCHANGED <<oauth_account_model, users, tokens, next_id, next_sub_id, tmem>>

\* BeanieUserDatabase.create
Create(h, create_dict) ==
    /\ next_id <= MaxId
    /\ LET user == UserModel(create_dict) @@ [id |-> next_id] IN
       IF EmailIndexAdmits(users, user)
       THEN /\ users' = users \cup {user}
            /\ next_id' = next_id + 1
            /\ umem' = [umem EXCEPT ![h] = user]
            /\ last' = Call("create", h, create_dict, "ok")
       ELSE /\ last' = Call("create", h, create_dict, "DuplicateKeyError")
            /\ UNCHANGED <<users, next_id, umem>>
    /\ UNCHANGED <<oauth_account_model, tokens, next_sub_id, tmem>>

\* user.save(), the object already changed in memory
SaveUser(op, h, arg, user) ==
    /\ umem' = [umem EXCEPT ![h] = user]
    /\ IF EmailIndexAdmits(users, user)
       THEN /\ users' = Saved(users, user)
            /\ last' = Call(op, h, arg, "ok")
       ELSE /\ users' = users
            /\ last' = Call(op, h, arg, "DuplicateKeyError")

\* BeanieUserDatabase.update
Update(h, update_dict) ==
    /\ umem[h] # None
    /\ SaveUser("update", h, update_dict, SetAttrs(umem[h], update_dict))
    /\ UNCHANGED <<oauth_account_model, tokens, next_id, next_sub_id, tmem>>

\* BeanieUserDatabase.delete
Delete(h) ==
    /\ umem[h] # None
    /\ users' = Deleted(users, umem[h])
    /\ last' = Call("delete", h, None, "ok")
    /\ UNCHANGED <<oauth_account_model, tokens, next_id, next_sub_id, umem, tmem>>

\* The new sub-record put in front of the list.
Prepended(accounts, oauth_account) == <<oauth_account>> \o accounts

\* user.oauth_accounts.append(oauth_account)
Appended(accounts, oauth_account) == Append(accounts, oauth_account)

\* add_oauth_account without the check of oauth_account_model.
AddOAuthAccountUnchecked(h, create_dict) ==
    /\ umem[h] # None
    /\ next_sub_id <= MaxSubId
    /\ next_sub_id' = next_sub_id + 1
    /\ LET oauth_account == OAuthAccountModel(create_dict, next_sub_id) IN
       SaveUser("add_oauth_account", h, create_dict,
                [umem[h] EXCEPT !.oauth_accounts = Appended(@, oauth_account)])
    /\ UNCHANGED <<oauth_account_model, tokens, next_id, tmem>>

\* BeanieUserDatabase.add_oauth_account
AddOAuthAccount(h, create_dict) ==
    /\ IF oauth_account_model = None
       THEN /\ last' = Call("add_oauth_account", h, create_dict, "NotImplementedError")
            /\ UNCHANGED <<users, umem, next_sub_id>>
       ELSE /\ umem[h] # None
            /\ next_sub_id <= MaxSubId
            /\ next_sub_id' = next_sub_id + 1
            /\ LET oauth_account == OAuthAccountModel(create_dict, next_sub_id) IN
               SaveUser("add_oauth_account", h, create_dict,
                        [umem[h] EXCEPT !.oauth_accounts = Appended(@, oauth_account)])
    /\ UNCHANGED <<oauth_account_model, tokens, next_id, tmem>>

\* The oauth_account argument of update_oauth_account: an element of the
\* user's own list (the same object), or an object of its own.
OAuthArg(accounts, ref) == IF ref.own THEN accounts[ref.index] ELSE ref

\* The loop without its comparison: every element gets the attributes set.
RECURSIVE UpdateEvery(_, _, _, _)
UpdateEvery(accounts, i, ref, update_dict) ==
    IF i > Len(accounts) THEN accounts
    ELSE UpdateEvery([accounts EXCEPT ![i] = SetAttrs(accounts[i], update_dict)],
                     i + 1, ref, update_dict)

\* The loop of update_oauth_account from index i on: every element whose
\* (oauth_name, account_id) equals the argument's gets the attributes set.
RECURSIVE UpdateMatching(_, _, _, _)
UpdateMatching(accounts, i, ref, update_dict) ==
    IF i > Len(accounts) THEN accounts
    ELSE LET existing_oauth_account == accounts[i]
             oauth_account == OAuthArg(accounts, ref)
         IN IF /\ existing_oauth_account.oauth_name = oauth_account.oauth_name
               /\ existing_oauth_account.account_id = oauth_account.account_id
            THEN UpdateMatching(
                     [accounts EXCEPT ![i] = SetAttrs(existing_oauth_account, update_dict)],
                     i + 1, ref, update_dict)
            ELSE UpdateMatching(accounts, i + 1, ref, update_dict)

\* BeanieUserDatabase.update_oauth_account
UpdateOAuthAccount(h, ref, update_dict) ==
    /\ IF oauth_account_model = None
       THEN /\ last' = Call("update_oauth_account", h, <<ref, update_dict>>,
                            "NotImplementedError")
            /\ UNCHANGED <<users, umem>>
       ELSE /\ umem[h] # None
            /\ ref.own => ref.index \in 1 .. Len(umem[h].oauth_accounts)
            /\ SaveUser("update_oauth_account", h, <<ref, update_dict>>,
                        [umem[h] EXCEPT
                            !.oauth_accounts = UpdateMatching(@, 1, ref, update_dict)])
    /\ UNCHANGED <<oauth_account_model, tokens, next_id, next_sub_id, tmem>>

-----------------------------------------------------------------------------
(* The access-token store.                                                 *)

\* An index that is not unique.
TokenIndexNotUnique(coll, doc) == TRUE

\* IndexModel("token", unique=True)
TokenIndexAdmits(coll, doc) ==
    \A d \in coll : d.id # doc.id => d.token # doc.token

\* self.access_token_model(**create_dict); created_at defaults to the clock.
AccessTokenModel(create_dict, now) == create_dict @@ [created_at |-> now]

\* The query with $gt in the place of $gte.
TokenMatchesAfter(coll, token, max_age) ==
    {d \in coll :
        /\ d.token = token
        /\ max_age # None => d.created_at.time > max_age.time}

\* The query of get_by_token: the token, and created_at >= max_age if given.
TokenMatches(coll, token, max_age) ==
    {d \in coll :
        /\ d.token = token
        /\ max_age # None => d.created_at.time >= max_age.time}

\* BeanieAccessTokenDatabase.get_by_token
GetByToken(h, token, max_age) ==
    \E access_token \in FindOneResults(TokenMatches(tokens, token, max_age)) :
        /\ tmem' = [tmem EXCEPT ![h] = access_token]
        /\ last' = Call("get_by_token", h, <<token, max_age>>, "ok")
        /\ UNCHANGED <<oauth_account_model, users, tokens, next_id, next_sub_id, umem>>

\* BeanieAccessTokenDatabase.create
TokenCreate(h, create_dict, now) ==
    /\ next_id <= MaxId
    /\ LET access_token == AccessTokenModel(create_dict, now) @@ [id |-> next_id] IN
       IF TokenIndexAdmits(tokens, access_token)
       THEN /\ tokens' = tokens \cup {access_token}
            /\ next_id' = next_id + 1
            /\ tmem' = [tmem EXCEPT ![h] = access_token]
            /\ last' = Call("token_create", h, create_dict, "ok")
       ELSE /\ last' = Call("token_create", h, create_dict, "DuplicateKeyError")
            /\ UNCHANGED <<tokens, next_id, tmem>>
    /\ UNCHANGED <<oauth_account_model, users, next_sub_id, umem>>

\* BeanieAccessTokenDatabase.update
TokenUpdate(h, update_dict) ==
    /\ tmem[h] # None
    /\ LET access_token == SetAttrs(tmem[h], update_dict) IN
       /\ tmem' = [tmem EXCEPT ![h] = access_token]
       /\ IF TokenIndexAdmits(tokens, access_token)
          THEN /\ tokens' = Saved(tokens, access_token)
               /\ last' = Call("token_update", h, update_dict, "ok")
          ELSE /\ tokens' = tokens
               /\ last' = Call("token_update", h, update_dict, "DuplicateKeyError")
    /\ UNCHANGED <<oauth_account_model, users, next_id, next_sub_id, umem>>

\* BeanieAccessTokenDatabase.delete
TokenDelete(h) ==
    /\ tmem[h] # None
    /\ tokens' = Deleted(tokens, tmem[h])
    /\ last' = Call("token_delete", h, None, "ok")
    /\ UNCHANGED <<oauth_account_model, users, next_id, next_sub_id, umem, tmem>>

-----------------------------------------------------------------------------
(* The inputs.                                                             *)

Lancelot == <<"l", "@", "c">>
LancelotUpper == <<"L", "@", "c">>
LancelotAcute == <<"l_acute", "@", "c">>
LancelotDot == <<"l", ".", "@", "c">>
LancelotStar == <<"l", ".", "*">>
Kvitochka == <<"ka_cyr", "@", "c">>
KvitochkaUpper == <<"KA_cyr", "@", "c">>

Emails ==
    {Lancelot, LancelotUpper, LancelotAcute, LancelotDot, LancelotStar,
     Kvitochka, KvitochkaUpper}

UserCreate(email) == [email |-> email, hashed_password |-> "guinevere"]

\* conftest.py: oauth_account1, oauth_account2
oauth_account1 ==
    [oauth_name |-> "service1", access_token |-> "TOKEN", expires_at |-> 1579000751,
     account_id |-> "user_oauth1", account_email |-> "king.arthur@camelot.bt"]
oauth_account2 ==
    [oauth_name |-> "service2", access_token |-> "TOKEN", expires_at |-> 1579000751,
     account_id |-> "user_oauth2", account_email |-> "king.arthur@camelot.bt"]

OAuthNames == {"service1", "service2"}
AccountIds == {"user_oauth1", "user_oauth2"}

\* The oauth_account arguments: an element of the list, or another object.
OAuthRefs ==
    {[own |-> TRUE, index |-> i] : i \in 1 .. MaxSubId}
    \cup {[own |-> FALSE, oauth_name |-> d.oauth_name, account_id |-> d.account_id] :
            d \in {oauth_account1, oauth_account2}}

TokenStrings == {"TOKEN", "OTHER"}

-----------------------------------------------------------------------------

Init ==
    /\ oauth_account_model \in {None, [name |-> "OAuthAccount"]}
    /\ users = {}
    /\ tokens = {}
    /\ next_id = 1
    /\ next_sub_id = 1
    /\ umem = [h \in Handles |-> None]
    /\ tmem = [h \in Handles |-> None]
    /\ last = [op |-> "init"]

\* The inputs below give the two caller variables two roles: h1 is the
\* variable a request creates or looks up its document into, h2 holds a copy of
\* a stored document that a second request loaded by id.

\* The user store without an OAuth type: emails under the collation.
InitUser == Init /\ oauth_account_model = None

NextUser ==
    \/ \E id \in 1 .. MaxId : Get("h2", id)
    \/ \E email \in Emails : GetByEmail("h1", email)
    \/ \E email \in {Lancelot, LancelotUpper, Kvitochka} : Create("h1", UserCreate(email))
    \/ \E h \in Handles :
           Update(h, [email |-> LancelotUpper]) \/ Update(h, [is_superuser |-> TRUE])
    \/ \E h \in Handles : Delete(h)
    \/ GetByOAuthAccount("h1", "service1", "user_oauth1")
    \/ AddOAuthAccount("h1", oauth_account1)
    \/ UpdateOAuthAccount("h1", [own |-> FALSE, oauth_name |-> "service1",
                                 account_id |-> "user_oauth1"],
                          [access_token |-> "NEW_TOKEN"])

Spec == InitUser /\ [][NextUser]_vars

\* The user store with an OAuth type: one user's embedded list.
InitOAuth == Init /\ oauth_account_model # None

NextOAuth ==
    \/ \E id \in 1 .. MaxId : Get("h2", id)
    \/ \E n \in OAuthNames, a \in AccountIds : GetByOAuthAccount("h1", n, a)
    \/ Create("h1", UserCreate(Lancelot))
    \/ Update("h2", [is_superuser |-> TRUE])
    \/ Delete("h1")
    \/ \E h \in Handles, create_dict \in {oauth_account1, oauth_account2} :
           AddOAuthAccount(h, create_dict)
    \/ \E ref \in OAuthRefs :
           UpdateOAuthAccount("h1", ref, [access_token |-> "NEW_TOKEN"])

SpecOAuth == InitOAuth /\ [][NextOAuth]_vars

\* The access-token store.
NextToken ==
    \/ \E h \in Handles, token \in TokenStrings, max_age \in Times \cup {None} :
           GetByToken(h, token, max_age)
    \/ \E h \in Handles, token \in TokenStrings, now \in Times :
           TokenCreate(h, [token |-> token, user_id |-> 1], now)
    \/ \E h \in Handles, t \in Times : TokenUpdate(h, [created_at |-> t])
    \/ \E h \in Handles, token \in TokenStrings : TokenUpdate(h, [token |-> token])
    \/ \E h \in Handles : TokenDelete(h)

SpecToken == InitUser /\ [][NextToken]_vars

\* Both stores, for what a delete leaves behind.
NextDelete ==
    \/ \E email \in {Lancelot, LancelotDot} : Create("h1", UserCreate(email))
    \/ \E id \in 1 .. MaxId : Get("h2", id)
    \/ AddOAuthAccount("h1", oauth_account1)
    \/ \E h \in Handles : Delete(h)
    \/ \E user_id \in 1 .. MaxId :
           TokenCreate("h1", [token |-> "TOKEN", user_id |-> user_id], Datetime(0))
    \/ GetByToken("h2", "TOKEN", None)
    \/ \E h \in Handles : TokenDelete(h)

SpecDelete == InitOAuth /\ [][NextDelete]_vars

\* Both stores, for two requests that update the same document: each loads a
\* copy of its own, and their saves come in any order.  h1 is the request that
\* also creates documents and changes the email; h2 holds its copy of the
\* first document, or of the token, from the moment it loaded it.
NextRace ==
    \/ Create("h1", UserCreate(Lancelot))
    \/ Get("h2", 1)
    \/ GetByEmail("h1", LancelotDot)
    \/ Update("h1", [email |-> LancelotDot])
    \/ \E h \in Handles : Update(h, [is_superuser |-> TRUE])
    \/ \E now \in Times : TokenCreate("h1", [token |-> "TOKEN", user_id |-> 1], now)
    \/ GetByToken("h2", "TOKEN", None)
    \/ \E h \in Handles :
           TokenUpdate(h, [created_at |-> Datetime(MaxTime)]) \/ TokenUpdate(h, [user_id |-> 2])

SpecRace == InitUser /\ [][NextRace]_vars

-----------------------------------------------------------------------------
(* Properties.  A property of one call is stated of the step the call      *)
(* takes: last' names the call, the unprimed variables are the state it     *)
(* was made in, the primed ones the state it leaves.                       *)

\* The sub-records of a user object, as a set of positions.
Positions(user) == 1 .. Len(user.oauth_accounts)

\* The stored document of an id, as a set of none or one.
StoredAs(coll, id) == {d \in coll : d.id = id}

\* C1: no two stored user documents have emails that are equal under the
\* case-insensitive (strength-2) collation.
C1_EmailsUniqueUnderCollation ==
    \A d1 \in users, d2 \in users :
        d1.id # d2.id => ~CollationEq(d1.email, d2.email, email_collation)

\* C2: get_by_oauth_account(provider, account_id) returns a user only if one
\* single sub-record of that user carries both the provider and the account id.
C2_SameSubRecord ==
    [][(last'.op = "get_by_oauth_account" /\ last'.outcome = "ok"
            /\ umem'[last'.h] # None)
        => \E i \in Positions(umem'[last'.h]) :
              /\ umem'[last'.h].oauth_accounts[i].oauth_name = last'.arg[1]
              /\ umem'[last'.h].oauth_accounts[i].account_id = last'.arg[2]]_vars

\* Letter case removed from a character, and equality of two strings up to
\* letter case alone.
FoldCase(c) == CASE c = "L" -> "l" [] c = "KA_cyr" -> "ka_cyr" [] OTHER -> c

EqualIgnoringCase(s, t) ==
    /\ Len(s) = Len(t)
    /\ \A i \in 1 .. Len(s) : FoldCase(s[i]) = FoldCase(t[i])

\* C3: get_by_email(q) returns a stored user whose email equals q up to letter
\* case when there is one, and None when there is none: an accent, another
\* character or a pattern character in q is a difference like any other.
C3_GetByEmail ==
    [][last'.op = "get_by_email"
        => IF \E d \in users : EqualIgnoringCase(d.email, last'.arg)
           THEN /\ umem'[last'.h] \in users
                /\ EqualIgnoringCase(umem'[last'.h].email, last'.arg)
           ELSE umem'[last'.h] = None]_vars

\* A lookup by an email of another letter case found the stored user.
C3_Witness ==
    /\ last.op = "get_by_email"
    /\ umem[last.h] \in users
    /\ umem[last.h].email = Kvitochka
    /\ last.arg = KvitochkaUpper

\* C5: without an OAuth type the three OAuth operations raise
\* NotImplementedError and leave the passed object and the collection alone.
C5_NoOAuthType ==
    [][(oauth_account_model = None
            /\ last'.op \in {"get_by_oauth_account", "add_oauth_account",
                             "update_oauth_account"})
        => /\ last'.outcome = "NotImplementedError"
           /\ users' = users
           /\ umem' = umem]_vars

\* add_oauth_account was refused on a stored user.
C5_Witness ==
    /\ oauth_account_model = None
    /\ last.op = "add_oauth_account"
    /\ last.outcome = "NotImplementedError"
    /\ umem[last.h] \in users

\* The sub-record at position i of the passed user has the (oauth_name,
\* account_id) of the oauth_account argument, as the call finds them.
RefMatches(user, ref, i) ==
    LET oauth_account == OAuthArg(user.oauth_accounts, ref) IN
    /\ user.oauth_accounts[i].oauth_name = oauth_account.oauth_name
    /\ user.oauth_accounts[i].account_id = oauth_account.account_id

\* C4: update_oauth_account on a list with a matching entry overwrites the
\* listed fields on that one entry and nothing else, in the returned document
\* and in the persisted one.
C4_OnlyThatEntry ==
    [][(/\ last'.op = "update_oauth_account"
        /\ last'.outcome = "ok"
        /\ \E i \in Positions(umem[last'.h]) :
               RefMatches(umem[last'.h], last'.arg[1], i))
        => \E i \in Positions(umem[last'.h]) :
              /\ RefMatches(umem[last'.h], last'.arg[1], i)
              /\ umem'[last'.h] =
                     [umem[last'.h] EXCEPT
                         !.oauth_accounts[i] = SetAttrs(@, last'.arg[2])]
              /\ StoredAs(users', umem[last'.h].id) = {umem'[last'.h]}]_vars

\* C8: add_oauth_account appends one sub-record, built from the fields and
\* with an id no sub-record had, to the end of the passed user's list and
\* changes nothing else of the user; when the save succeeds the persisted
\* document is the returned one.
C8_AddAppends ==
    [][(last'.op = "add_oauth_account" /\ last'.outcome # "NotImplementedError")
        => LET before == umem[last'.h].oauth_accounts
               after == umem'[last'.h].oauth_accounts
               held == (users \cup {umem[g] : g \in Handles}) \ {None}
           IN /\ Len(after) = Len(before) + 1
              /\ SubSeq(after, 1, Len(before)) = before
              /\ \A k \in DOMAIN last'.arg : after[Len(after)][k] = last'.arg[k]
              /\ \A u \in held : \A i \in Positions(u) :
                     u.oauth_accounts[i].id # after[Len(after)].id
              /\ [umem'[last'.h] EXCEPT !.oauth_accounts = before] = umem[last'.h]
              /\ last'.outcome = "ok"
                     => StoredAs(users', umem[last'.h].id) = {umem'[last'.h]}]_vars

\* A second sub-record was added behind the first and saved.
C8_Witness ==
    /\ last.op = "add_oauth_account"
    /\ last.outcome = "ok"
    /\ Len(umem[last.h].oauth_accounts) = 2
    /\ umem[last.h].oauth_accounts[2].oauth_name = last.arg.oauth_name
    /\ umem[last.h] \in users

\* update_oauth_account is called, of a user whose list has no entry with the
\* (oauth_name, account_id) of the oauth_account argument.
NoMatchCall ==
    /\ last'.op = "update_oauth_account"
    /\ last'.outcome # "NotImplementedError"
    /\ \A i \in Positions(umem[last'.h]) : ~RefMatches(umem[last'.h], last'.arg[1], i)

\* C10: update_oauth_account with no matching entry signals no error, returns
\* the user with its list unchanged, and leaves the persisted list of a stored
\* user unchanged.
C10_NoMatchNoOp ==
    [][(NoMatchCall /\ StoredAs(users, umem[last'.h].id) # {})
        => /\ last'.outcome = "ok"
           /\ umem'[last'.h].oauth_accounts = umem[last'.h].oauth_accounts
           /\ {d.oauth_accounts : d \in StoredAs(users', umem[last'.h].id)}
                  = {d.oauth_accounts : d \in StoredAs(users, umem[last'.h].id)}]_vars

\* C10, amended: with no matching entry the passed user is returned unchanged
\* and no error arises but one of the save; the save writes the passed
\* document, so the persisted list afterwards is the passed copy's list, and
\* the collection is unchanged when the passed copy is the stored document.
C10_NoMatchSavesPassedCopy ==
    [][NoMatchCall
        => /\ umem'[last'.h] = umem[last'.h]
           /\ last'.outcome \in {"ok", "DuplicateKeyError"}
           /\ last'.outcome = "ok" => StoredAs(users', umem[last'.h].id) = {umem[last'.h]}
           /\ last'.outcome # "ok" => users' = users
           /\ umem[last'.h] \in users => last'.outcome = "ok" /\ users' = users]_vars

\* The call was made with a sub-record that a non-empty list does not hold.
C10_Witness ==
    /\ last.op = "update_oauth_account"
    /\ last.outcome = "ok"
    /\ umem[last.h] \in users
    /\ Len(umem[last.h].oauth_accounts) > 0
    /\ \A i \in Positions(umem[last.h]) : ~RefMatches(umem[last.h], last.arg[1], i)

\* C6: get_by_token(token, max_age) returns a stored document with that token
\* string and, if max_age is given, a created_at not before max_age, when there
\* is one, and None when there is none.
C6_GetByToken ==
    [][last'.op = "get_by_token"
        => LET token == last'.arg[1]
               max_age == last'.arg[2]
               Fits(d) ==
                   /\ d.token = token
                   /\ max_age # None => ~(d.created_at.time < max_age.time)
           IN IF \E d \in tokens : Fits(d)
              THEN tmem'[last'.h] \in tokens /\ Fits(tmem'[last'.h])
              ELSE tmem'[last'.h] = None]_vars

\* A token created exactly at max_age was returned.
C6_Witness ==
    /\ last.op = "get_by_token"
    /\ last.arg[2] # None
    /\ tmem[last.h] \in tokens
    /\ tmem[last.h].created_at = last.arg[2]

\* The token string a create or an update is about to store, and the stored
\* documents other than the call's own that hold it already.
StoredToken ==
    IF "token" \in DOMAIN last'.arg THEN last'.arg.token ELSE tmem[last'.h].token

TokenHolders ==
    {d \in tokens :
        /\ d.token = StoredToken
        /\ last'.op = "token_update" => d.id # tmem[last'.h].id}

\* C7: no two stored access tokens share a token string; a create or an update
\* that would store a string another stored document holds raises
\* DuplicateKeyError and leaves the collection as it was.
C7_TokensUnique ==
    [][/\ \A d1 \in tokens', d2 \in tokens' : d1.id # d2.id => d1.token # d2.token
       /\ (last'.op \in {"token_create", "token_update"} /\ TokenHolders # {})
              => last'.outcome = "DuplicateKeyError" /\ tokens' = tokens]_vars

\* An update to the token string of another stored document was refused.
C7_Witness ==
    /\ last.op = "token_update"
    /\ last.outcome = "DuplicateKeyError"
    /\ "token" \in DOMAIN last.arg
    /\ \E d \in tokens : d.id # tmem[last.h].id /\ d.token = last.arg.token
    /\ \E d \in tokens : d.id = tmem[last.h].id /\ d.token # last.arg.token

\* The queries of the get-style lookups of the two stores, and the stored
\* documents each matches.
UserQueries ==
    {[by |-> "id", id |-> id] : id \in 1 .. MaxId}
    \cup {[by |-> "email", email |-> e] : e \in Emails}
    \cup {[by |-> "oauth", oauth |-> n, account_id |-> a] :
            n \in OAuthNames, a \in AccountIds}

UserQueryMatches(coll, q) ==
    CASE q.by = "id" -> StoredAs(coll, q.id)
      [] q.by = "email" -> EmailMatches(coll, q.email)
      [] q.by = "oauth" -> OAuthMatches(coll, q.oauth, q.account_id)

TokenQueries == {<<token, max_age>> : token \in TokenStrings, max_age \in Times \cup {None}}

\* C9: after delete, every lookup that found the entity returns None; deleting
\* a user leaves the access tokens unchanged.
C9_DeletedLookupsAbsent ==
    [][/\ last'.op = "delete"
          => /\ tokens' = tokens
             /\ \A q \in UserQueries :
                    StoredAs(users, umem[last'.h].id) \cap UserQueryMatches(users, q) # {}
                        => FindOneResults(UserQueryMatches(users', q)) = {None}
       /\ last'.op = "token_delete"
          => \A q \in TokenQueries :
                 StoredAs(tokens, tmem[last'.h].id) \cap TokenMatches(tokens, q[1], q[2]) # {}
                     => FindOneResults(TokenMatches(tokens', q[1], q[2])) = {None}]_vars

\* C9, amended: after delete, no lookup returns the deleted entity, and a lookup
\* that matched nothing but the entity returns None; deleting a user leaves the
\* access tokens unchanged.
C9_DeletedIsNotReturned ==
    [][/\ last'.op = "delete"
          => LET gone == StoredAs(users, umem[last'.h].id) IN
             /\ tokens' = tokens
             /\ FindById(users', umem[last'.h].id) = None
             /\ \A q \in UserQueries :
                    /\ gone \cap FindOneResults(UserQueryMatches(users', q)) = {}
                    /\ UserQueryMatches(users, q) \subseteq gone
                           => FindOneResults(UserQueryMatches(users', q)) = {None}
       /\ last'.op = "token_delete"
          => LET gone == StoredAs(tokens, tmem[last'.h].id) IN
             \A q \in TokenQueries :
                 /\ gone \cap FindOneResults(TokenMatches(tokens', q[1], q[2])) = {}
                 /\ TokenMatches(tokens, q[1], q[2]) \subseteq gone
                        => FindOneResults(TokenMatches(tokens', q[1], q[2])) = {None}]_vars

\* A user with an OAuth sub-record is deleted, a token of that user is stored.
C9_Witness ==
    /\ last.op = "delete"
    /\ Len(umem[last.h].oauth_accounts) > 0
    /\ StoredAs(users, umem[last.h].id) = {}
    /\ \E t \in tokens : t.user_id = umem[last.h].id

\* update is called through a copy of a stored user while the caller's other
\* variable holds a copy of the same document.
RacingUpdate ==
    /\ last'.op = "update"
    /\ StoredAs(users, umem[last'.h].id) # {}
    /\ \E g \in Handles \ {last'.h} : umem[g] # None /\ umem[g].id = umem[last'.h].id

\* The same of the access-token store.
RacingTokenUpdate ==
    /\ last'.op = "token_update"
    /\ StoredAs(tokens, tmem[last'.h].id) # {}
    /\ \E g \in Handles \ {last'.h} : tmem[g] # None /\ tmem[g].id = tmem[last'.h].id

\* C11: of two updates through two copies of the same stored document, in
\* either order, neither fails, and the stored document after each save is the
\* complete in-memory state of the copy saved.
C11_RacingUpdatesNeverFail ==
    [][/\ RacingUpdate
          => /\ last'.outcome = "ok"
             /\ StoredAs(users', umem[last'.h].id) = {umem'[last'.h]}
       /\ RacingTokenUpdate
          => /\ last'.outcome = "ok"
             /\ StoredAs(tokens', tmem[last'.h].id) = {tmem'[last'.h]}]_vars

\* C11, amended: of two updates through two copies of the same stored document,
\* in either order, neither is refused for the other's save: a save fails only
\* with DuplicateKeyError, when another stored document holds the email (the
\* token string) of the copy being saved, and then stores nothing.  A save that
\* succeeds leaves the complete in-memory state of its copy as the stored
\* document, the values the copy never changed included, and no other document
\* changed.
C11_LastWriteWins ==
    [][/\ RacingUpdate
          => LET user == SetAttrs(umem[last'.h], last'.arg)
                 held == \E d \in users : d.id # user.id /\ d.email = user.email
             IN /\ umem'[last'.h] = user
                /\ last'.outcome = IF held THEN "DuplicateKeyError" ELSE "ok"
                /\ held => users' = users
                /\ ~held => users' = {d \in users : d.id # user.id} \cup {user}
       /\ RacingTokenUpdate
          => LET access_token == SetAttrs(tmem[last'.h], last'.arg)
                 held == \E d \in tokens :
                             d.id # access_token.id /\ d.token = access_token.token
             IN /\ tmem'[last'.h] = access_token
                /\ last'.outcome = IF held THEN "DuplicateKeyError" ELSE "ok"
                /\ held => tokens' = tokens
                /\ ~held => tokens' = {d \in tokens : d.id # access_token.id}
                                          \cup {access_token}]_vars

\* The later save, of an email, put back the is_superuser that the earlier
\* save through the other copy had changed.
C11_Witness ==
    /\ last.op = "update"
    /\ last.outcome = "ok"
    /\ "is_superuser" \notin DOMAIN last.arg
    /\ StoredAs(users, umem[last.h].id) = {umem[last.h]}
    /\ ~umem[last.h].is_superuser
    /\ \E g \in Handles \ {last.h} :
           /\ umem[g] # None
           /\ umem[g].id = umem[last.h].id
           /\ umem[g].is_superuser
           /\ umem[g].email # umem[last.h].email

====
